---- MODULE Spec2Model ----
(***************************************************************************)
(* Model of packages/dev-server/src/HermesBundler.ts.                      *)
(*                                                                         *)
(* Spec        : concurrent calls of buildHermesBundleAsync, interleaved   *)
(*               at their await points, over a shared temp file system.   *)
(* SpecHeader  : the bytecode header inspector applied to bounded files.   *)
(***************************************************************************)
EXTENDS Integers, Sequences, FiniteSets, TLC

VARIABLES
  platform,   \* os.platform() of the host
  fs,         \* temp file system: directory path -> [exists, files]
  pc,         \* per call: the await the call is suspended at
  pid,        \* per call: process.pid of the calling process
  code,       \* per call: argument `code`
  map,        \* per call: argument `map`
  optimize,   \* per call: argument `optimize` as passed ("omitted" = not passed)
  created,    \* per call: fs.ensureDir(tempDir) resolved
  staged,     \* per call: names of the files for which fs.writeFile resolved
  spawned,    \* per call: sequence of [cmd, args] handed to spawnAsync
  exit,       \* per call: how the compiler process of this call ended
  rd,         \* per call: fs.readFile(tempHbcFile) promise
  cmp,        \* per call: createHermesSourcemapAsync promise
  pending,    \* per call: completion of the try block (what finally holds back)
  removal,    \* per call: how fs.remove(tempDir) in the finally block settled
  outcome,    \* per call: what the caller observes
  file,       \* header inspector: the file on disk (sequence of bytes)
  hop,        \* header inspector: operation in progress
  hpc,        \* header inspector: position inside readHermesHeaderAsync
  fds,        \* header inspector: open file descriptors
  buffer,     \* header inspector: Buffer.alloc(12) and what was read into it
  hres,       \* header inspector: result observed by the caller
  gcontent,   \* parseGradleProperties: argument `content` (sequence of characters)
  gpc,        \* parseGradleProperties: "input" while the text is chosen, then "done"
  gres        \* parseGradleProperties: the returned record (key -> value)

bvars == <<platform, fs, pc, pid, code, map, optimize, created, staged,
           spawned, exit, rd, cmp, pending, removal, outcome>>
hvars == <<file, hop, hpc, fds, buffer, hres>>
gvars == <<gcontent, gpc, gres>>
vars == <<bvars, hvars, gvars>>

----------------------------------------------------------------------------
(* Bounded input sets                                                        *)

\* the calls, named in the order in which they are issued
CallOrder == <<"a", "b">>
Builds == {CallOrder[i] : i \in DOMAIN CallOrder}
NumPids == 2
Pids == 1..NumPids
MalformedMaps == {"bad"}
\* the (code, map) pairs handed to the calls
Requests == {<<"c1", "m1">>, <<"c2", "m2">>, <<"c2", "bad">>}
OptimizeArgs == {"true", "false", "omitted"}
Platforms == {"linux", "sunos"}

----------------------------------------------------------------------------
(* Paths and file contents                                                   *)

PathJoin(dir, name) == Append(dir, name)
Dirname(path) == SubSeq(path, 1, Len(path) - 1)
Basename(path) == path[Len(path)]

OsTmpdir == <<"tmp">>

TempDir(p) == PathJoin(OsTmpdir, <<"expo-bundler-", p>>)

Dirs == {TempDir(p) : p \in Pids}
FileNames == {"index.bundle", "index.bundle.map", "index.hbc", "index.hbc.map"}

Absent == [kind |-> "absent", src |-> "", opt |-> FALSE]
Text(t) == [kind |-> "text", src |-> t, opt |-> FALSE]
Hbc(c, o) == [kind |-> "hbc", src |-> c, opt |-> o]
PartialHbc(c, o) == [kind |-> "partial", src |-> c, opt |-> o]
HermesMap(c, o) == [kind |-> "hmap", src |-> c, opt |-> o]

EmptyDir == [exists |-> FALSE, files |-> [n \in FileNames |-> Absent]]

FileAt(fsys, path) ==
  IF fsys[Dirname(path)].exists THEN fsys[Dirname(path)].files[Basename(path)]
  ELSE Absent

\* fs.ensureDir: the directory exists afterwards, its entries are kept
EnsureDir(fsys, dir) == [fsys EXCEPT ![dir].exists = TRUE]

\* fs.writeFile: creates or replaces the file; the parent must exist
CanWrite(fsys, path) == fsys[Dirname(path)].exists
WriteFile(fsys, path, content) ==
  [fsys EXCEPT ![Dirname(path)].files[Basename(path)] = content]

\* fs.remove: removes the directory and everything in it
RemoveDir_keep(fsys, dir) == fsys
RemoveDir(fsys, dir) == [fsys EXCEPT ![dir] = EmptyDir]

----------------------------------------------------------------------------
(* Completions, promises                                                     *)

NoMap == [bundler |-> "", hermes |-> Absent]
NoCompletion == [kind |-> "none", err |-> "", hbc |-> Absent, sourcemap |-> NoMap]
Throw(e) == [kind |-> "throw", err |-> e, hbc |-> Absent, sourcemap |-> NoMap]
Return(h, s) == [kind |-> "return", err |-> "", hbc |-> h, sourcemap |-> s]

Idle == [st |-> "idle", err |-> ""]
Pending == [st |-> "pending", err |-> ""]
Rejected(e) == [st |-> "failed", err |-> e]
ReadResolved(h) == [st |-> "ok", err |-> "", val |-> h]
MapResolved(s) == [st |-> "ok", err |-> "", val |-> s]

----------------------------------------------------------------------------
(* buildHermesBundleAsync: synchronous pieces                                *)

\* optimize: boolean = false
DefaultOptimize(o) == IF o = "omitted" THEN FALSE ELSE o = "true"

TempBundleFile(tempDir) == PathJoin(tempDir, "index.bundle")
TempSourcemapFile(tempDir) == PathJoin(tempDir, "index.bundle.map")
TempHbcFile(tempDir) == PathJoin(tempDir, "index.hbc")
\* `${tempHbcFile}.map`
DotMap(path) == PathJoin(Dirname(path), IF Basename(path) = "index.hbc"
                                         THEN "index.hbc.map"
                                         ELSE "index.bundle.map")

BuildArgs_alwaysO(tempDir, opt) ==
  <<"-emit-binary", "-out", TempHbcFile(tempDir), TempBundleFile(tempDir),
    "-output-source-map", "-O">>
BuildArgs(tempDir, opt) ==
  <<"-emit-binary", "-out", TempHbcFile(tempDir), TempBundleFile(tempDir),
    "-output-source-map">> \o (IF opt THEN <<"-O">> ELSE <<>>)

getHermesCommandPlatform(plat) ==
  CASE plat = "darwin" -> [ok |-> TRUE, value |-> "osx-bin/hermesc"]
    [] plat = "linux"  -> [ok |-> TRUE, value |-> "linux64-bin/hermesc"]
    [] plat = "win32"  -> [ok |-> TRUE, value |-> "win64-bin/hermesc.exe"]
    [] OTHER           -> [ok |-> FALSE, value |-> "unsupportedPlatform"]

\* found: whether resolveFrom.silent finds hermes-engine/<executable> in the project
getHermesCommand(plat, found) ==
  LET platformExecutable == getHermesCommandPlatform(plat) IN
  IF ~platformExecutable.ok THEN platformExecutable
  ELSE IF ~found THEN [ok |-> FALSE, value |-> "missingHermes"]
  ELSE [ok |-> TRUE, value |-> <<"hermes-engine", platformExecutable.value>>]

\* found: whether resolveFrom.silent finds metro-source-map/src/composeSourceMaps
importMetroSourceMapFromProject(found) ==
  IF found THEN [ok |-> TRUE, value |-> "composeSourceMaps"]
  ELSE [ok |-> FALSE, value |-> "missingMetro"]

JsonParse(text) ==
  IF text \in MalformedMaps THEN [ok |-> FALSE, value |-> "jsonParse"]
  ELSE [ok |-> TRUE, value |-> text]

\* composeSourceMaps([bundlerSourcemap, hermesSourcemap]), serialized
ComposeSourceMaps(maps) == [bundler |-> maps[1], hermes |-> maps[2]]

\* createHermesSourcemapAsync up to its first await (lines 63-65)
ComposerStart(sourcemap, metroFound) ==
  IF ~importMetroSourceMapFromProject(metroFound).ok THEN Rejected("missingMetro")
  ELSE IF ~JsonParse(sourcemap).ok THEN Rejected("jsonParse")
  ELSE Pending

\* createHermesSourcemapAsync after fs.readJSON(hermesMapFile) settled (lines 65-66)
ComposerFinish(sourcemap, content, ioOk) ==
  IF ~ioOk \/ content.kind # "hmap" THEN Rejected("readJSON")
  ELSE MapResolved(ComposeSourceMaps(<<JsonParse(sourcemap).value, content>>))

\* fs.readFile(tempHbcFile) settled
ReadFinish(content, ioOk) ==
  IF ~ioOk \/ content.kind = "absent" THEN Rejected("readFile")
  ELSE ReadResolved(content)

\* Promise.all([readFile, createHermesSourcemapAsync]) and the return statement
PromiseAll_race(r, c) ==
  IF r.st = "failed" THEN Throw(r.err)
  ELSE IF r.st = "ok" THEN Return(r.val, IF c.st = "ok" THEN c.val ELSE NoMap)
  ELSE NoCompletion
PromiseAll(r, c) ==
  IF r.st = "failed" THEN Throw(r.err)
  ELSE IF c.st = "failed" THEN Throw(c.err)
  ELSE IF r.st = "ok" /\ c.st = "ok" THEN Return(r.val, c.val)
  ELSE NoCompletion

\* what the caller sees once `finally { await fs.remove(tempDir) }` has run
Finally(pend, removeOk) == IF removeOk THEN pend ELSE Throw("remove")

\* where the call continues after `await fs.ensureDir(tempDir)`
AfterEnsureDir_ignore(ok) == "writeBundle"
AfterEnsureDir(ok) == IF ok THEN "writeBundle" ELSE "done"

\* where the call continues after `await spawnAsync(hermesCommand, args)`
AfterSpawn_ignore(status) == "join"
AfterSpawn(status) == IF status = "0" THEN "join" ELSE "finally"

----------------------------------------------------------------------------
(* The external compiler: hermesc -emit-binary -out <out> <in>             *)
(*                                -output-source-map [-O]                   *)

ExitStatuses == {"0", "nonzero", "signal", "spawnError"}

HermescOptimize(args) == Len(args) >= 6 /\ args[6] = "-O"
HermescCanSucceed(fsys, args) ==
  /\ FileAt(fsys, args[4]).kind = "text"
  /\ CanWrite(fsys, args[3])
HermescOutput(fsys, args) ==
  LET src == FileAt(fsys, args[4]).src
      o == HermescOptimize(args)
  IN WriteFile(WriteFile(fsys, args[3], Hbc(src, o)),
               DotMap(args[3]), HermesMap(src, o))
HermescPartialOutput(fsys, args) ==
  WriteFile(fsys, args[3],
            PartialHbc(FileAt(fsys, args[4]).src, HermescOptimize(args)))

----------------------------------------------------------------------------
(* buildHermesBundleAsync: one action per await                              *)

tempDir(b) == TempDir(pid[b])

InitBuilds ==
  /\ platform \in Platforms
  /\ fs = [d \in Dirs |-> EmptyDir]
  /\ pc = [b \in Builds |-> "idle"]
  /\ pid = [b \in Builds |-> 0]
  /\ code = [b \in Builds |-> ""]
  /\ map = [b \in Builds |-> ""]
  /\ optimize = [b \in Builds |-> "omitted"]
  /\ created = [b \in Builds |-> FALSE]
  /\ staged = [b \in Builds |-> {}]
  /\ spawned = [b \in Builds |-> <<>>]
  /\ exit = [b \in Builds |-> "none"]
  /\ rd = [b \in Builds |-> Idle]
  /\ cmp = [b \in Builds |-> Idle]
  /\ pending = [b \in Builds |-> NoCompletion]
  /\ removal = [b \in Builds |-> "none"]
  /\ outcome = [b \in Builds |-> NoCompletion]

\* process ids are handed out in order of first use
UsedPids == Cardinality({pid[b] : b \in Builds} \ {0})

\* lines 23-30: the call, up to `await fs.ensureDir(tempDir)`
Call(b) ==
  /\ pc[b] = "idle"
  /\ \A i \in DOMAIN CallOrder :
       CallOrder[i] = b => \A j \in 1..(i - 1) : pc[CallOrder[j]] # "idle"
  /\ \E p \in Pids, rq \in Requests, o \in OptimizeArgs :
       /\ p <= UsedPids + 1
       /\ pid' = [pid EXCEPT ![b] = p]
       /\ code' = [code EXCEPT ![b] = rq[1]]
       /\ map' = [map EXCEPT ![b] = rq[2]]
       /\ optimize' = [optimize EXCEPT ![b] = o]
  /\ pc' = [pc EXCEPT ![b] = "ensureDir"]
  /\ UNCHANGED <<platform, fs, created, staged, spawned, exit, rd, cmp,
                 pending, removal, outcome, hvars, gvars>>

\* line 30 settles; a rejection leaves the function before the try block
EnsureDirDone(b) ==
  /\ pc[b] = "ensureDir"
  /\ \E ok \in BOOLEAN :
       /\ pc' = [pc EXCEPT ![b] = AfterEnsureDir(ok)]
       /\ IF ok
          THEN /\ fs' = EnsureDir(fs, tempDir(b))
               /\ created' = [created EXCEPT ![b] = TRUE]
               /\ UNCHANGED outcome
          ELSE /\ outcome' = [outcome EXCEPT ![b] = Throw("ensureDir")]
               /\ UNCHANGED <<fs, created>>
  /\ UNCHANGED <<platform, pid, code, map, optimize, staged, spawned, exit,
                 rd, cmp, pending, removal, hvars, gvars>>

\* line 34 settles
WriteBundleDone(b) ==
  /\ pc[b] = "writeBundle"
  /\ \E ioOk \in BOOLEAN :
       IF ioOk /\ CanWrite(fs, TempBundleFile(tempDir(b)))
       THEN /\ fs' = WriteFile(fs, TempBundleFile(tempDir(b)), Text(code[b]))
            /\ staged' = [staged EXCEPT ![b] = @ \cup {"index.bundle"}]
            /\ pc' = [pc EXCEPT ![b] = "writeMap"]
            /\ UNCHANGED pending
       ELSE /\ pending' = [pending EXCEPT ![b] = Throw("writeFile")]
            /\ pc' = [pc EXCEPT ![b] = "finally"]
            /\ UNCHANGED <<fs, staged>>
  /\ UNCHANGED <<platform, pid, code, map, optimize, created, spawned, exit,
                 rd, cmp, removal, outcome, hvars, gvars>>

\* line 35 settles; lines 37-43 run up to `await spawnAsync(...)`
WriteMapDone(b) ==
  /\ pc[b] = "writeMap"
  /\ \E ioOk \in BOOLEAN, found \in BOOLEAN :
       IF ioOk /\ CanWrite(fs, TempSourcemapFile(tempDir(b)))
       THEN LET hermesCommand == getHermesCommand(platform, found) IN
            /\ fs' = WriteFile(fs, TempSourcemapFile(tempDir(b)), Text(map[b]))
            /\ staged' = [staged EXCEPT ![b] = @ \cup {"index.bundle.map"}]
            /\ IF hermesCommand.ok
               THEN /\ spawned' = [spawned EXCEPT ![b] = Append(@,
                          [cmd |-> hermesCommand.value,
                           args |-> BuildArgs(tempDir(b), DefaultOptimize(optimize[b]))])]
                    /\ pc' = [pc EXCEPT ![b] = "spawn"]
                    /\ UNCHANGED pending
               ELSE /\ pending' = [pending EXCEPT ![b] = Throw(hermesCommand.value)]
                    /\ pc' = [pc EXCEPT ![b] = "finally"]
                    /\ UNCHANGED spawned
       ELSE /\ found
            /\ pending' = [pending EXCEPT ![b] = Throw("writeFile")]
            /\ pc' = [pc EXCEPT ![b] = "finally"]
            /\ UNCHANGED <<fs, staged, spawned>>
  /\ UNCHANGED <<platform, pid, code, map, optimize, created, exit, rd, cmp,
                 removal, outcome, hvars, gvars>>

\* line 43 settles: the compiler process has ended; on success lines 45-48
\* start both sub-steps and suspend on Promise.all
SpawnDone(b) ==
  /\ pc[b] = "spawn"
  /\ \E status \in ExitStatuses, partial \in BOOLEAN, metroFound \in BOOLEAN :
       LET args == spawned[b][Len(spawned[b])].args IN
       /\ status = "0" => HermescCanSucceed(fs, args)
       /\ partial => status \in {"nonzero", "signal"} /\ HermescCanSucceed(fs, args)
       /\ fs' = IF status = "0" THEN HermescOutput(fs, args)
                ELSE IF partial THEN HermescPartialOutput(fs, args)
                ELSE fs
       /\ exit' = [exit EXCEPT ![b] = status]
       /\ IF AfterSpawn(status) = "join"
          THEN LET c == ComposerStart(map[b], metroFound)
                   all == PromiseAll(Pending, c)
               IN /\ rd' = [rd EXCEPT ![b] = Pending]
                  /\ cmp' = [cmp EXCEPT ![b] = c]
                  /\ pending' = [pending EXCEPT ![b] = all]
                  /\ pc' = [pc EXCEPT ![b] =
                              IF all.kind = "none" THEN "join" ELSE "finally"]
          ELSE /\ metroFound
               /\ pending' = [pending EXCEPT ![b] = Throw(status)]
               /\ pc' = [pc EXCEPT ![b] = "finally"]
               /\ UNCHANGED <<rd, cmp>>
  /\ UNCHANGED <<platform, pid, code, map, optimize, created, staged, spawned,
                 removal, outcome, hvars, gvars>>

\* Promise.all settles as soon as one sub-step rejects or both have resolved;
\* a sub-step that is still in flight then keeps running
Settle(b, r, c) ==
  IF pc[b] = "join"
  THEN LET all == PromiseAll(r, c) IN
       /\ pending' = [pending EXCEPT ![b] = all]
       /\ pc' = [pc EXCEPT ![b] = IF all.kind = "none" THEN "join" ELSE "finally"]
  ELSE UNCHANGED <<pending, pc>>

\* line 46 settles
ReadHbcDone(b) ==
  /\ rd[b].st = "pending"
  /\ \E ioOk \in BOOLEAN :
       LET r == ReadFinish(FileAt(fs, TempHbcFile(tempDir(b))), ioOk) IN
       /\ rd' = [rd EXCEPT ![b] = r]
       /\ Settle(b, r, cmp[b])
  /\ UNCHANGED <<platform, fs, pid, code, map, optimize, created, staged,
                 spawned, exit, cmp, removal, outcome, hvars, gvars>>

\* line 65 settles, line 66 runs
ReadJsonDone(b) ==
  /\ cmp[b].st = "pending"
  /\ \E ioOk \in BOOLEAN :
       LET c == ComposerFinish(map[b], FileAt(fs, DotMap(TempHbcFile(tempDir(b)))), ioOk) IN
       /\ cmp' = [cmp EXCEPT ![b] = c]
       /\ Settle(b, rd[b], c)
  /\ UNCHANGED <<platform, fs, pid, code, map, optimize, created, staged,
                 spawned, exit, rd, removal, outcome, hvars, gvars>>

\* line 54 settles and the call completes
RemoveDone(b) ==
  /\ pc[b] = "finally"
  /\ \E removeOk \in BOOLEAN :
       /\ fs' = IF removeOk THEN RemoveDir(fs, tempDir(b)) ELSE fs
       /\ removal' = [removal EXCEPT ![b] = IF removeOk THEN "ok" ELSE "failed"]
       /\ outcome' = [outcome EXCEPT ![b] = Finally(pending[b], removeOk)]
  /\ pc' = [pc EXCEPT ![b] = "done"]
  /\ UNCHANGED <<platform, pid, code, map, optimize, created, staged, spawned,
                 exit, rd, cmp, pending, hvars, gvars>>

InitHeaderIdle ==
  /\ file = <<>>
  /\ hop = "none"
  /\ hpc = "idle"
  /\ fds = {}
  /\ buffer = <<>>
  /\ hres = [kind |-> "none", value |-> ""]

InitGradle ==
  /\ gcontent = <<>>
  /\ gpc = "input"
  /\ gres = <<>>

Init == InitBuilds /\ InitHeaderIdle /\ InitGradle

Next ==
  \E b \in Builds :
    \/ Call(b)
    \/ EnsureDirDone(b)
    \/ WriteBundleDone(b)
    \/ WriteMapDone(b)
    \/ SpawnDone(b)
    \/ ReadHbcDone(b)
    \/ ReadJsonDone(b)
    \/ RemoveDone(b)

Spec == Init /\ [][Next]_vars

----------------------------------------------------------------------------
(* Bytecode header inspector                                                 *)

MaxFileLen == 13
MaxMismatch == 1

\* c6 1f bc 03 c1 03 19 1f
MagicBytes == <<198, 31, 188, 3, 193, 3, 25, 31>>
WrongBytes == {0, 255}
VersionBytes == {0, 5, 255}
TrailingBytes == {7}

HERMES_MAGIC_HEADER ==
  <<"c", "6", "1", "f", "b", "c", "0", "3", "c", "1", "0", "3", "1", "9", "1", "f">>

HexDigits == <<"0", "1", "2", "3", "4", "5", "6", "7", "8", "9", "a", "b", "c", "d", "e", "f">>

RECURSIVE ToStringHex(_)
\* Buffer.prototype.toString('hex')
ToStringHex(bytes) ==
  IF bytes = <<>> THEN <<>>
  ELSE <<HexDigits[(Head(bytes) \div 16) + 1], HexDigits[(Head(bytes) % 16) + 1]>>
       \o ToStringHex(Tail(bytes))

Min(x, y) == IF x < y THEN x ELSE y

\* Buffer.alloc(n): n zero bytes
BufferAlloc(n) == [i \in 1..n |-> 0]

\* fs.read(fd, buffer, 0, length, null): copies the bytes the file has, at most length
FsRead(buf, f, length) ==
  [i \in 1..Len(buf) |-> IF i <= Min(length, Len(f)) THEN f[i] ELSE buf[i]]

\* Buffer.prototype.slice(start, end)
Slice(buf, start, end) == SubSeq(buf, start + 1, Min(end, Len(buf)))

\* Buffer.prototype.readUInt32LE(offset):
\*   first + b[offset+1] * 2**8 + b[offset+2] * 2**16 + last * 2**24
\* The number is kept as two 16-bit limbs, value = hi * 65536 + lo, since it
\* ranges over 0..2^32-1.
readUInt32LE_bigEndian(buf, offset) ==
  [lo |-> buf[offset + 4] + buf[offset + 3] * 256,
   hi |-> buf[offset + 2] + buf[offset + 1] * 256]
readUInt32LE(buf, offset) ==
  [lo |-> buf[offset + 1] + buf[offset + 2] * 256,
   hi |-> buf[offset + 3] + buf[offset + 4] * 256]

HeaderLen == 12

HasMagic_short(header) == ToStringHex(Slice(header, 0, 7)) = SubSeq(HERMES_MAGIC_HEADER, 1, 14)
HasMagic(header) == ToStringHex(Slice(header, 0, 8)) = HERMES_MAGIC_HEADER

isHermesBytecodeBundle(header) == [kind |-> "return", value |-> HasMagic(header)]

getHermesBytecodeBundleVersion(header) ==
  IF ~HasMagic(header) THEN [kind |-> "throw", value |-> "Invalid hermes bundle file"]
  ELSE [kind |-> "return", value |-> readUInt32LE(header, 8)]

Mismatches(f) == Cardinality({i \in 1..Min(Len(f), 8) : f[i] # MagicBytes[i]})

InitBuildsIdle == InitBuilds /\ platform = "linux"

InitHeader == InitBuildsIdle /\ InitHeaderIdle /\ InitGradle

\* the file under inspection grows by one byte
AppendByte ==
  /\ hpc = "idle"
  /\ Len(file) < MaxFileLen
  /\ \E v \in 0..255 :
       /\ IF Len(file) < 8
          THEN \/ v = MagicBytes[Len(file) + 1]
               \/ v \in WrongBytes /\ Mismatches(file) < MaxMismatch
          ELSE IF Len(file) < HeaderLen THEN v \in VersionBytes
          ELSE v \in TrailingBytes
       /\ file' = Append(file, v)
  /\ UNCHANGED <<hop, hpc, fds, buffer, hres, bvars, gvars>>

\* isHermesBytecodeBundleAsync / getHermesBytecodeBundleVersionAsync called:
\* readHermesHeaderAsync runs up to `await fs.open(file, 'r')`
HeaderCall ==
  /\ hpc = "idle"
  /\ \E op \in {"isHermesBytecodeBundleAsync", "getHermesBytecodeBundleVersionAsync"} :
       hop' = op
  /\ hpc' = "open"
  /\ UNCHANGED <<file, fds, buffer, hres, bvars, gvars>>

\* line 188 settles; lines 189-190 run up to `await fs.read(...)`
OpenDone ==
  /\ hpc = "open"
  /\ \E ok \in BOOLEAN :
       IF ok
       THEN /\ fds' = fds \cup {3}
            /\ buffer' = BufferAlloc(HeaderLen)
            /\ hpc' = "read"
            /\ UNCHANGED hres
       ELSE /\ hres' = [kind |-> "throw", value |-> "open"]
            /\ hpc' = "done"
            /\ UNCHANGED <<fds, buffer>>
  /\ UNCHANGED <<file, hop, bvars, gvars>>

\* line 190 settles; line 191 runs up to `await fs.close(fd)`
ReadDone ==
  /\ hpc = "read"
  /\ \E ok \in BOOLEAN :
       IF ok
       THEN /\ buffer' = FsRead(buffer, file, HeaderLen)
            /\ hpc' = "close"
            /\ UNCHANGED hres
       ELSE /\ hres' = [kind |-> "throw", value |-> "read"]
            /\ hpc' = "done"
            /\ UNCHANGED buffer
  /\ UNCHANGED <<file, hop, fds, bvars, gvars>>

\* line 191 settles; the header is returned and the caller's lines 176 / 181-184 run
CloseDone ==
  /\ hpc = "close"
  /\ \E ok \in BOOLEAN, released \in BOOLEAN :
       /\ ok => released
       /\ fds' = IF released THEN fds \ {3} ELSE fds
       /\ hres' = IF ~ok THEN [kind |-> "throw", value |-> "close"]
                  ELSE IF hop = "isHermesBytecodeBundleAsync"
                  THEN isHermesBytecodeBundle(buffer)
                  ELSE getHermesBytecodeBundleVersion(buffer)
  /\ hpc' = "done"
  /\ UNCHANGED <<file, hop, buffer, bvars, gvars>>

NextHeader ==
  \/ AppendByte
  \/ HeaderCall
  \/ OpenDone
  \/ ReadDone
  \/ CloseDone

SpecHeader == InitHeader /\ [][NextHeader]_vars

----------------------------------------------------------------------------
(* parseGradleProperties                                                     *)

MaxContentLen == 6
Chars == {"a", "=", "#", " ", "\n"}
WhitespaceChars == {" ", "\t", "\r", "\n"}

\* String.prototype.indexOf(ch): 0-based, -1 when absent
IndexOf_last(str, ch) ==
  IF \E i \in 1..Len(str) : str[i] = ch
  THEN (CHOOSE i \in 1..Len(str) :
          str[i] = ch /\ \A j \in (i + 1)..Len(str) : str[j] # ch) - 1
  ELSE -1
IndexOf(str, ch) ==
  IF \E i \in 1..Len(str) : str[i] = ch
  THEN (CHOOSE i \in 1..Len(str) :
          str[i] = ch /\ \A j \in 1..(i - 1) : str[j] # ch) - 1
  ELSE -1

\* String.prototype.substr(start, length): a negative length gives ''
Substr(str, start, length) ==
  IF length <= 0 THEN <<>> ELSE SubSeq(str, start + 1, Min(start + length, Len(str)))
\* String.prototype.substr(start)
SubstrFrom(str, start) == SubSeq(str, start + 1, Len(str))

RECURSIVE Split(_, _)
\* String.prototype.split(sep) for a one-character separator
Split(str, sep) ==
  LET i == IndexOf(str, sep) IN
  IF i = -1 THEN <<str>>
  ELSE <<Substr(str, 0, i)>> \o Split(SubstrFrom(str, i + 1), sep)

RECURSIVE TrimStart(_)
TrimStart(str) ==
  IF str # <<>> /\ Head(str) \in WhitespaceChars THEN TrimStart(Tail(str)) ELSE str
RECURSIVE TrimEnd(_)
TrimEnd(str) ==
  IF str # <<>> /\ str[Len(str)] \in WhitespaceChars
  THEN TrimEnd(SubSeq(str, 1, Len(str) - 1)) ELSE str
\* String.prototype.trim()
Trim_none(str) == str
Trim(str) == TrimEnd(TrimStart(str))

RECURSIVE ParseLines(_, _)
\* the loop of lines 98-108 over the remaining lines
ParseLines(lines, result) ==
  IF lines = <<>> THEN result
  ELSE LET line == Trim(Head(lines)) IN
       IF line = <<>> \/ Head(line) = "#" THEN ParseLines(Tail(lines), result)
       ELSE LET sepIndex == IndexOf(line, "=")
                key == Substr(line, 0, sepIndex)
                value == SubstrFrom(line, sepIndex + 1)
            IN ParseLines(Tail(lines), (key :> value) @@ result)

parseGradleProperties(text) == ParseLines(Split(text, "\n"), <<>>)

\* the text handed to parseGradleProperties grows by one character
AppendChar ==
  /\ gpc = "input"
  /\ Len(gcontent) < MaxContentLen
  /\ \E ch \in Chars : gcontent' = Append(gcontent, ch)
  /\ UNCHANGED <<gpc, gres, bvars, hvars>>

\* lines 96-110
ParseCall ==
  /\ gpc = "input"
  /\ gres' = parseGradleProperties(gcontent)
  /\ gpc' = "done"
  /\ UNCHANGED <<gcontent, bvars, hvars>>

NextGradle ==
  \/ AppendChar
  \/ ParseCall

SpecGradle == InitHeader /\ [][NextGradle]_vars

----------------------------------------------------------------------------
(* Claims about buildHermesBundleAsync (checked under Spec)                  *)

InFlight(b) == pc[b] \notin {"idle", "done"}
Single(b) == \A o \in Builds \ {b} : pc[o] = "idle"
WorkspaceExists(b) == fs[tempDir(b)].exists

\* C1 (as stated): a single call whose workspace directory was created leaves
\* no workspace directory behind when it returns or throws, on every exit path.
C1_Original ==
  \A b \in Builds :
    pc[b] = "done" /\ created[b] /\ Single(b) => ~WorkspaceExists(b)

\* C1 (amended): a single call whose workspace directory was created leaves no
\* workspace directory behind when it returns or throws, on every exit path on
\* which the removal of the workspace itself did not fail.
C1_Amended ==
  \A b \in Builds :
    pc[b] = "done" /\ created[b] /\ Single(b) /\ removal[b] # "failed"
      => ~WorkspaceExists(b)

C1_Witness ==
  \E b \in Builds :
    /\ pc[b] = "done" /\ created[b] /\ Single(b)
    /\ exit[b] = "nonzero" /\ outcome[b] = Throw("nonzero")
    /\ removal[b] = "ok" /\ ~WorkspaceExists(b)

\* C2: any two calls that are in flight at the same time use different
\* workspace directories.
C2_UniqueWorkspace ==
  \A x, y \in Builds :
    x # y /\ InFlight(x) /\ InFlight(y) => tempDir(x) # tempDir(y)

\* C3: every call that returns a result returns the bytecode compiled from its
\* own code and the source map composed from its own map and its own code.
C3_OwnInputs ==
  \A b \in Builds :
    outcome[b].kind = "return" =>
      LET o == (optimize[b] = "true") IN
      /\ outcome[b].hbc = [kind |-> "hbc", src |-> code[b], opt |-> o]
      /\ outcome[b].sourcemap =
           [bundler |-> map[b],
            hermes |-> [kind |-> "hmap", src |-> code[b], opt |-> o]]

\* C4: when the pipeline failed with error E and the removal of the workspace
\* fails too, the caller receives E.
C4_NoMasking ==
  \A b \in Builds :
    pc[b] = "done" /\ pending[b].kind = "throw" /\ removal[b] = "failed"
      => outcome[b] = pending[b]

\* C5: the compiler is spawned at most once per call; a call whose compiler did
\* not exit with code 0 never returns a result and ends by throwing; index.hbc
\* is read only by a call whose compiler exited with code 0.
C5_CompilerFailureFatal ==
  \A b \in Builds :
    /\ Len(spawned[b]) <= 1
    /\ exit[b] \notin {"none", "0"} =>
         /\ pending[b].kind # "return" /\ outcome[b].kind # "return"
         /\ pc[b] = "done" => outcome[b].kind = "throw"
    /\ rd[b].st # "idle" => exit[b] = "0"
    /\ (pending[b].kind = "return" \/ outcome[b].kind = "return") => exit[b] = "0"

C5_Witness ==
  \E b \in Builds :
    /\ pc[b] = "done" /\ exit[b] = "signal" /\ Len(spawned[b]) = 1
    /\ outcome[b].kind = "throw" /\ rd[b].st = "idle"
    /\ FileAt(fs, <<"tmp", <<"expo-bundler-", pid[b]>>, "index.hbc">>).kind = "partial"

\* C6: a result is returned only when both the bytecode read and the source-map
\* composition resolved, and it carries both of their values; when either of
\* them rejected the call throws.
C6_StructuredJoin ==
  \A b \in Builds :
    /\ (pending[b].kind = "return" \/ outcome[b].kind = "return") =>
         /\ rd[b].st = "ok" /\ cmp[b].st = "ok"
         /\ pending[b].hbc = rd[b].val /\ pending[b].sourcemap = cmp[b].val
         /\ pending[b].hbc.kind # "absent"
         /\ pending[b].sourcemap.hermes.kind # "absent"
    /\ outcome[b].kind = "return" => outcome[b] = pending[b]
    /\ pc[b] = "done" /\ (rd[b].st = "failed" \/ cmp[b].st = "failed")
         => outcome[b].kind = "throw"

C6_Witness ==
  \E x, y \in Builds :
    /\ outcome[x].kind = "return" /\ rd[x].st = "ok" /\ cmp[x].st = "ok"
    /\ pc[y] = "done" /\ rd[y].st = "ok" /\ cmp[y].st = "failed"
    /\ outcome[y].kind = "throw"

\* C7: when creating the workspace directory fails the call throws that
\* error, stages no file and never spawns the compiler.
C7_CreationFailureAborts ==
  \A b \in Builds :
    /\ ~created[b] => staged[b] = {} /\ spawned[b] = <<>> /\ exit[b] = "none"
    /\ pc[b] = "done" /\ ~created[b] =>
         /\ outcome[b].kind = "throw" /\ outcome[b].err = "ensureDir"
         /\ removal[b] = "none"

C7_Witness ==
  \E b \in Builds :
    /\ pc[b] = "done" /\ ~created[b] /\ outcome[b].err = "ensureDir"
    /\ staged[b] = {} /\ spawned[b] = <<>>

\* C8: the compiler arguments are -emit-binary -out <workspace>/index.hbc
\* <workspace>/index.bundle -output-source-map, followed by -O exactly when
\* optimize is true, and by nothing when it is false or omitted.
C8_CompilerArguments ==
  \A b \in Builds :
    \A i \in 1..Len(spawned[b]) :
      LET ws == <<"tmp", <<"expo-bundler-", pid[b]>>>> IN
      spawned[b][i].args =
        <<"-emit-binary", "-out", ws \o <<"index.hbc">>, ws \o <<"index.bundle">>,
          "-output-source-map">>
          \o (IF optimize[b] = "true" THEN <<"-O">> ELSE <<>>)

C8_Witness ==
  \E x, y \in Builds :
    /\ optimize[x] = "true" /\ Len(spawned[x]) = 1
    /\ Len(spawned[x][1].args) = 6 /\ spawned[x][1].args[6] = "-O"
    /\ optimize[y] = "omitted" /\ Len(spawned[y]) = 1
    /\ Len(spawned[y][1].args) = 5

----------------------------------------------------------------------------
(* Claims about the header inspector (checked under SpecHeader)              *)

IoErrors == {"open", "read", "close"}
FileHasMagic == Len(file) >= 8 /\ \A i \in 1..8 : file[i] = MagicBytes[i]

\* C9: isHermesBytecodeBundleAsync returns true iff the first 8 bytes of the
\* file are c6 1f bc 03 c1 03 19 1f; on a readable file shorter than 8 bytes it
\* returns false and does not fail.
C9_MagicDetection ==
  hpc = "done" /\ hop = "isHermesBytecodeBundleAsync" =>
    /\ hres.kind = "return" => hres.value = FileHasMagic
    /\ hres.kind = "throw" => hres.value \in IoErrors
    /\ Len(file) < 8 /\ hres.kind = "return" => hres.value = FALSE

C9_Witness ==
  /\ hpc = "done" /\ hop = "isHermesBytecodeBundleAsync"
  /\ file = SubSeq(MagicBytes, 1, 7)
  /\ hres = [kind |-> "return", value |-> FALSE]

\* C10: reading the header fails for every file shorter than 12 bytes; stated
\* for the case the claim singles out: getHermesBytecodeBundleVersionAsync on a
\* file of 8 to 11 bytes that starts with the magic fails instead of returning
\* a version number decoded from missing bytes.
C10_ShortVersionFails ==
  hpc = "done" /\ hop = "getHermesBytecodeBundleVersionAsync"
    /\ Len(file) \in 8..11 /\ FileHasMagic
    => hres.kind = "throw"

\* C11: on a file of at least 12 bytes getHermesBytecodeBundleVersionAsync
\* fails with the invalid-bundle error when one of the first 8 bytes differs
\* from the magic, and otherwise returns b8 + 256*b9 + 65536*b10 + 16777216*b11,
\* a number in 0..2^32-1. The number is compared limb by limb: its low 16 bits
\* are b8 + 256*b9 and its high 16 bits are b10 + 256*b11.
C11_VersionDecoding ==
  hpc = "done" /\ hop = "getHermesBytecodeBundleVersionAsync" /\ Len(file) >= 12
    /\ ~(hres.kind = "throw" /\ hres.value \in IoErrors) =>
      IF \E i \in 1..8 : file[i] # MagicBytes[i]
      THEN hres = [kind |-> "throw", value |-> "Invalid hermes bundle file"]
      ELSE /\ hres.kind = "return"
           /\ hres.value.lo = file[9] + 256 * file[10]
           /\ hres.value.hi = file[11] + 256 * file[12]
           /\ hres.value.lo \in 0..65535 /\ hres.value.hi \in 0..65535

C11_Witness ==
  /\ hpc = "done" /\ hop = "getHermesBytecodeBundleVersionAsync"
  /\ file = MagicBytes \o <<5, 0, 0, 0>>
  /\ hres = [kind |-> "return", value |-> [lo |-> 5, hi |-> 0]]

----------------------------------------------------------------------------
(* Claims about parseGradleProperties (checked under SpecGradle)             *)

\* the lines of the text, as pairs of the positions of the line breaks around them
LineBreaks ==
  {0, Len(gcontent) + 1} \cup {i \in 1..Len(gcontent) : gcontent[i] = "\n"}
LineSpans ==
  {sp \in LineBreaks \X LineBreaks :
     sp[1] < sp[2] /\ \A k \in LineBreaks : ~(sp[1] < k /\ k < sp[2])}
RawLine(sp) == SubSeq(gcontent, sp[1] + 1, sp[2] - 1)
\* the line without its leading and trailing whitespace
TrimmedLine(sp) ==
  LET ink == {i \in (sp[1] + 1)..(sp[2] - 1) : gcontent[i] \notin WhitespaceChars} IN
  IF ink = {} THEN <<>>
  ELSE SubSeq(gcontent, CHOOSE i \in ink : \A j \in ink : i <= j,
                        CHOOSE i \in ink : \A j \in ink : i >= j)

IsIgnored(ln) ==
  \/ \A i \in 1..Len(ln) : ln[i] \in WhitespaceChars
  \/ ln[1] = "#"
HasSep(ln) == \E i \in 1..Len(ln) : ln[i] = "="
FirstSep(ln) == CHOOSE i \in 1..Len(ln) : ln[i] = "=" /\ \A j \in 1..(i - 1) : ln[j] # "="
KeyOf(ln) == SubSeq(ln, 1, FirstSep(ln) - 1)
ValueOf(ln) == SubSeq(ln, FirstSep(ln) + 1, Len(ln))

\* With LineText(sp) the text a line is read as: every line that is not
\* ignored contains `=`, the result has exactly the keys of those lines, and
\* each key is mapped to the value of the last line that has it.
PropertiesOf(LineText(_)) ==
  LET entries == {sp \in LineSpans : ~IsIgnored(LineText(sp))} IN
  (\A sp \in entries : HasSep(LineText(sp))) =>
    /\ DOMAIN gres = {KeyOf(LineText(sp)) : sp \in entries}
    /\ \A sp \in entries :
         (\A later \in entries :
            later[1] > sp[1] => KeyOf(LineText(later)) # KeyOf(LineText(sp)))
         => gres[KeyOf(LineText(sp))] = ValueOf(LineText(sp))

\* C12 (as stated): blank lines and lines starting with # are ignored; every
\* other line containing = maps the text before its first = to everything
\* after it, with no trimming: whitespace around the value is preserved and
\* later = characters stay in the value.
C12_Original == gpc = "done" => PropertiesOf(RawLine)

\* C12 (amended): every line is first trimmed of leading and trailing
\* whitespace; lines that are then empty or start with # are ignored; every
\* other line containing = maps the trimmed line's text before its first = to
\* everything after it. The value is not trimmed on its own: whitespace right
\* after the = is preserved, whitespace at the end of the line is not, and
\* later = characters stay in the value.
C12_Amended == gpc = "done" => PropertiesOf(TrimmedLine)

C12_Witness ==
  /\ gpc = "done"
  /\ gcontent = <<"a", "=", " ", "=", "a", " ">>
  /\ DOMAIN gres = {<<"a">>}
  /\ gres[<<"a">>] = <<" ", "=", "a">>

----------------------------------------------------------------------------
(* Further claims about buildHermesBundleAsync (checked under Spec)          *)

MissingDependencyErrors == {"missingHermes", "missingMetro"}

\* C13: a call that fails because the compiler executable or the source-map
\* composer library is missing from the project fails before the compiler
\* process is spawned, spawns nothing afterwards, returns no result and ends
\* by throwing.
C13_MissingDependencyFirst ==
  \A b \in Builds :
    pending[b].kind = "throw" /\ pending[b].err \in MissingDependencyErrors =>
      /\ spawned[b] = <<>> /\ exit[b] = "none"
      /\ outcome[b].kind # "return"
      /\ pc[b] = "done" => outcome[b].kind = "throw"

\* C14: the removal of the workspace of a call never starts (and never has
\* finished) while the read of index.hbc or the composition of that call is
\* still in flight.
C14_ReleaseAfterSubSteps ==
  \A b \in Builds :
    pc[b] \in {"finally", "done"} => rd[b].st # "pending" /\ cmp[b].st # "pending"

\* C15: while a call is between staging its inputs and finishing its artifact
\* reads, the files it staged and the files its compiler produced are still in
\* its workspace: no other call's cleanup has deleted them.
C15_NoForeignRemoval ==
  \A b \in Builds :
    pc[b] \in {"writeMap", "spawn", "join"} =>
      /\ \A n \in staged[b] : FileAt(fs, PathJoin(tempDir(b), n)).kind # "absent"
      /\ pc[b] = "join" =>
           /\ FileAt(fs, PathJoin(tempDir(b), "index.hbc")).kind # "absent"
           /\ FileAt(fs, PathJoin(tempDir(b), "index.hbc.map")).kind # "absent"

----------------------------------------------------------------------------
(* Further claims about the header inspector (checked under SpecHeader)      *)

\* C16: when isHermesBytecodeBundleAsync or getHermesBytecodeBundleVersionAsync
\* has returned or failed, every file descriptor the call opened is closed.
C16_NoDescriptorLeak ==
  hpc = "done" => fds = {}

====
